---------------------------- MODULE Spec2Model ----------------------------
(***************************************************************************)
(* Model of the receipt API of main.go: the scoring function               *)
(* receiptPoints, the in-memory receipts map, and the two HTTP handlers     *)
(* postReceipt and getReceiptPoints, each run on its own goroutine.         *)
(*                                                                         *)
(* Strings are sequences of one-character strings, so that parsing,        *)
(* trimming and character counting are computed as the code computes them. *)
(* The alphabet is ASCII: letters, digits, space and -+.:& .  The letters   *)
(* used in numeric fields stay clear of the ones strconv.ParseFloat gives   *)
(* a meaning to (e, p, x, inf, nan, _).                                     *)
(*                                                                         *)
(* A float64 obtained from a decimal string is kept as the exact rational   *)
(* num / 10^fd.  For the short strings used here (at most five significant  *)
(* digits) the IEEE-754 results of math.Mod(x, 1.00) == 0,                  *)
(* math.Mod(x, 0.25) == 0 and math.Ceil(x * 0.2) coincide with the exact    *)
(* ones.                                                                    *)
(***************************************************************************)
EXTENDS Integers, Sequences, FiniteSets, TLC

VARIABLES
    receipts,   \* the receipts map: identifier -> Receipt
    pc,         \* per goroutine: where its handler is
    req,        \* per goroutine: the request it serves
    guid,       \* per goroutine: postReceipt's receiptGuid
    raced,      \* per goroutine: its map read overlapped a write, or its map write another write
    known,      \* per goroutine: the queried id had been returned in a 201 before the query started
    crashed,    \* the runtime threw a fatal error (concurrent map access)
    nreq,       \* number of requests accepted so far
    last,       \* the latest response written, with what its handler observed
    acked,      \* identifiers returned in a 201 so far
    ackedBody,  \* identifier -> receipt submitted by the latest request answered 201 with it
    lastPoints, \* identifier -> points of the latest 200 response for it, -1 if none
    input,      \* scoring harness: the receipt handed to receiptPoints
    prevInput,  \* scoring harness: the receipt scored before the purchase time was changed
    points,     \* scoring harness: result of receiptPoints(input)
    prevPoints, \* scoring harness: result of receiptPoints(prevInput)
    parts,      \* scoring harness: what each rule added to points
    scored      \* scoring harness: receiptPoints has run

serverVars == <<receipts, pc, req, guid, raced, known, crashed, nreq,
                last, acked, ackedBody, lastPoints>>
scoreVars  == <<input, prevInput, points, prevPoints, parts, scored>>
vars       == <<serverVars, scoreVars>>

-----------------------------------------------------------------------------
(* Characters *)

Lower == {"a","b","c","d","e","f","g","h","i","j","k","l","m",
          "n","o","p","q","r","s","t","u","v","w","x","y","z"}
Upper == {"A","B","C","D","E","F","G","H","I","J","K","L","M",
          "N","O","P","Q","R","S","T","U","V","W","X","Y","Z"}
Digit == {"0","1","2","3","4","5","6","7","8","9"}

\* (char >= 'a' && char <= 'z') || (char >= 'A' && char <= 'Z') || (char >= '0' && char <= '9')
IsAlnum(char) == char \in Lower \/ char \in Upper \/ char \in Digit

DigitVal(c) ==
    CASE c = "0" -> 0 [] c = "1" -> 1 [] c = "2" -> 2 [] c = "3" -> 3 [] c = "4" -> 4
      [] c = "5" -> 5 [] c = "6" -> 6 [] c = "7" -> 7 [] c = "8" -> 8 [] c = "9" -> 9

isDigit(s, i) == i <= Len(s) /\ s[i] \in Digit

RECURSIVE Pow10(_)
Pow10(n) == IF n = 0 THEN 1 ELSE 10 * Pow10(n - 1)

\* value of a sequence of digit characters
RECURSIVE atoi(_)
atoi(s) == IF s = <<>> THEN 0 ELSE 10 * atoi(SubSeq(s, 1, Len(s) - 1)) + DigitVal(s[Len(s)])

-----------------------------------------------------------------------------
(* strconv.ParseFloat(s, 64) on the alphabet above: [+-] digits [. digits],  *)
(* at least one digit, nothing else.  On a syntax error the value is 0 and   *)
(* err is set.  The value is num / 10^fd.                                    *)

ParseFloat(s) ==
    LET signed == Len(s) >= 1 /\ s[1] \in {"+", "-"}
        body   == IF signed THEN SubSeq(s, 2, Len(s)) ELSE s
        dots   == {i \in 1..Len(body) : body[i] = "."}
        digs   == {i \in 1..Len(body) : body[i] \in Digit}
        ok     == /\ Cardinality(dots) <= 1
                  /\ Cardinality(digs) >= 1
                  /\ Cardinality(dots) + Cardinality(digs) = Len(body)
        dot    == IF dots = {} THEN Len(body) + 1 ELSE CHOOSE i \in dots : TRUE
        mant   == atoi(SubSeq(body, 1, dot - 1) \o SubSeq(body, dot + 1, Len(body)))
        fd     == IF dots = {} THEN 0 ELSE Len(body) - dot
    IN  IF ok
          THEN [num |-> IF signed /\ s[1] = "-" THEN 0 - mant ELSE mant, fd |-> fd, err |-> FALSE]
          ELSE [num |-> 0, fd |-> 0, err |-> TRUE]

\* math.Mod(x, 1.00) == 0
ModOneIsZero(x) == x.num % Pow10(x.fd) = 0

\* math.Mod(x, 0.25) == 0
ModQuarterIsZero(x) == (4 * x.num) % Pow10(x.fd) = 0

\* int(x * 0.2), the fraction dropped instead of rounded up
TruncFifth(x) == IF x.num >= 0 THEN x.num \div (5 * Pow10(x.fd))
                 ELSE 0 - ((0 - x.num) \div (5 * Pow10(x.fd)))

\* int(math.Ceil(x * 0.2))
CeilFifth(x) == 0 - ((0 - x.num) \div (5 * Pow10(x.fd)))

\* strings.Trim(s, " ")
RECURSIVE Trim(_)
Trim(s) ==
    IF s = <<>> THEN s
    ELSE IF s[1] = " " THEN Trim(Tail(s))
    ELSE IF s[Len(s)] = " " THEN Trim(SubSeq(s, 1, Len(s) - 1))
    ELSE s

-----------------------------------------------------------------------------
(* time.Parse("2006-01-02", s): four-digit year, '-', two-digit month in   *)
(* 1..12, '-', two-digit day valid for the month, and no extra text.        *)

isLeap(year) == year % 4 = 0 /\ (year % 100 # 0 \/ year % 400 = 0)

daysIn(month, year) ==
    IF month = 2 THEN (IF isLeap(year) THEN 29 ELSE 28)
    ELSE IF month \in {4, 6, 9, 11} THEN 30 ELSE 31

ParseDate(s) ==
    LET shape == /\ Len(s) = 10
                 /\ \A i \in {1, 2, 3, 4, 6, 7, 9, 10} : isDigit(s, i)
                 /\ s[5] = "-" /\ s[8] = "-"
        year  == atoi(SubSeq(s, 1, 4))
        month == atoi(SubSeq(s, 6, 7))
        day   == atoi(SubSeq(s, 9, 10))
    IN  IF shape /\ month \in 1..12 /\ day >= 1 /\ day <= daysIn(month, year)
          THEN [err |-> FALSE, day |-> day]
          ELSE [err |-> TRUE, day |-> 1]

(* time.Parse("15:04", s): hour of one or two digits below 24, ':',        *)
(* two-digit minute below 60, and no extra text.                            *)
ParseTime(s) ==
    LET hlen  == IF isDigit(s, 1) /\ isDigit(s, 2) THEN 2 ELSE 1
        shape == /\ isDigit(s, 1)
                 /\ Len(s) = hlen + 3
                 /\ s[hlen + 1] = ":"
                 /\ isDigit(s, hlen + 2) /\ isDigit(s, hlen + 3)
        hour  == atoi(SubSeq(s, 1, hlen))
        min   == atoi(SubSeq(s, hlen + 2, hlen + 3))
    IN  IF shape /\ hour < 24 /\ min < 60
          THEN [err |-> FALSE, hour |-> hour, minute |-> min]
          ELSE [err |-> TRUE, hour |-> 0, minute |-> 0]

-----------------------------------------------------------------------------
(* receiptPoints, rule by rule *)

\* Alphanumeric retailer character check
RetailerPoints(receipt) ==
    Cardinality({i \in 1..Len(receipt.retailer) : IsAlnum(receipt.retailer[i])})

\* receiptTotal, _ := strconv.ParseFloat(receipt.Total, 64): the error is dropped
receiptTotal(receipt) == ParseFloat(receipt.total)

RoundDollarPoints(receipt) == IF ModOneIsZero(receiptTotal(receipt)) THEN 50 ELSE 0

QuarterPoints(receipt) == IF ModQuarterIsZero(receiptTotal(receipt)) THEN 25 ELSE 0

\* points += 5 * (len(receipt.Items) / 2)
ItemCountPoints(receipt) == 5 * (Len(receipt.items) \div 2)

\* one iteration of the item description loop
ItemPoints(currItem) ==
    IF Len(Trim(currItem.shortDescription)) % 3 = 0
      THEN CeilFifth(ParseFloat(currItem.price))
      ELSE 0

RECURSIVE SumItemPoints(_)
SumItemPoints(items) ==
    IF items = <<>> THEN 0 ELSE ItemPoints(Head(items)) + SumItemPoints(Tail(items))

DescriptionPoints(receipt) == SumItemPoints(receipt.items)

DatePoints(receipt) == IF ParseDate(receipt.purchaseDate).day % 2 # 0 THEN 6 ELSE 0

\* the window with 14:00 itself left out
TimePointsAfterTwo(receipt) ==
    LET receiptTime == ParseTime(receipt.purchaseTime)
    IN  IF receiptTime.hour >= 14 /\ receiptTime.hour < 16
          THEN (IF receiptTime.hour = 14 /\ receiptTime.minute > 0 THEN 10
                ELSE IF receiptTime.hour = 14 THEN 0 ELSE 10)
          ELSE 0

TimePoints(receipt) ==
    LET receiptTime == ParseTime(receipt.purchaseTime)
    IN  IF receiptTime.hour >= 14 /\ receiptTime.hour < 16
          THEN (IF receiptTime.hour = 14 /\ receiptTime.minute > 0 THEN 10 ELSE 10)
          ELSE 0

\* the points accumulated before the date is parsed
Accumulated(receipt) ==
    RetailerPoints(receipt) + RoundDollarPoints(receipt) + QuarterPoints(receipt)
      + ItemCountPoints(receipt) + DescriptionPoints(receipt)

\* a parse failure returning the points accumulated so far
receiptPointsPartial(receipt) ==
    IF ParseDate(receipt.purchaseDate).err THEN Accumulated(receipt)
    ELSE IF ParseTime(receipt.purchaseTime).err
           THEN Accumulated(receipt) + DatePoints(receipt)
    ELSE Accumulated(receipt) + DatePoints(receipt) + TimePoints(receipt)

receiptPoints(receipt) ==
    IF ParseDate(receipt.purchaseDate).err THEN 0
    ELSE IF ParseTime(receipt.purchaseTime).err THEN 0
    ELSE Accumulated(receipt) + DatePoints(receipt) + TimePoints(receipt)

-----------------------------------------------------------------------------
(* Receipts the handlers and the scoring harness are fed with *)

sTarget == <<"T","a","r","g","e","t">>
sMMCornerMarket == <<"M","&","M"," ","C","o","r","n","e","r"," ","M","a","r","k","e","t">>
sPepsi == <<"P","e","p","s","i"," ","-"," ","1","2","-","o","z">>
sDasani == <<"D","a","s","a","n","i">>
sAbcPadded == <<" ","a","b","c"," ">>
sSpaces == <<" "," "," ">>
s1_25 == <<"1",".","2","5">>
s1_40 == <<"1",".","4","0">>
s35_00 == <<"3","5",".","0","0">>
s0_10 == <<"0",".","1","0">>
sAbc == <<"a","b","c">>
sMinus1_00 == <<"-","1",".","0","0">>
sMinus500_00 == <<"-","5","0","0",".","0","0">>
s2022_01_01 == <<"2","0","2","2","-","0","1","-","0","1">>
s2022_01_02 == <<"2","0","2","2","-","0","1","-","0","2">>
s2022_02_30 == <<"2","0","2","2","-","0","2","-","3","0">>
s13_01 == <<"1","3",":","0","1">>
s2pm == <<"2","p","m">>
s9_05 == <<"9",":","0","5">>
s24_00 == <<"2","4",":","0","0">>
s14_60 == <<"1","4",":","6","0">>

\* type Item struct
Item(shortDescription, price) == [shortDescription |-> shortDescription, price |-> price]

\* type Receipt struct
Receipt(retailer, purchaseDate, purchaseTime, total, items) ==
    [retailer |-> retailer, purchaseDate |-> purchaseDate, purchaseTime |-> purchaseTime,
     total |-> total, items |-> items]

\* var newReceipt Receipt: the zero value
ZeroReceipt == Receipt(<<>>, <<>>, <<>>, <<>>, <<>>)

ClassicReceipt ==
    Receipt(sTarget, s2022_01_01, s13_01, s1_25, <<Item(sPepsi, s1_25), Item(sDasani, s1_40)>>)

\* longest item list the scoring harness builds
MaxItems == 2

ItemPool == {Item(sPepsi, s1_25), Item(sDasani, s1_40), Item(sAbcPadded, sMinus500_00),
             Item(sSpaces, sAbc)}

ItemLists == UNION {[1..n -> ItemPool] : n \in 0..MaxItems}

Retailers == {sTarget, sMMCornerMarket}
Totals    == {s1_25, s35_00, s0_10, sAbc, <<>>, sMinus1_00}
Dates     == {s2022_01_01, s2022_01_02, s2022_02_30}
Times     == {s13_01, s2pm}

DigitChar(d) ==
    CASE d = 0 -> "0" [] d = 1 -> "1" [] d = 2 -> "2" [] d = 3 -> "3" [] d = 4 -> "4"
      [] d = 5 -> "5" [] d = 6 -> "6" [] d = 7 -> "7" [] d = 8 -> "8" [] d = 9 -> "9"

\* the HH:MM string of an hour and a minute
Clock(h, m) == <<DigitChar(h \div 10), DigitChar(h % 10), ":", DigitChar(m \div 10), DigitChar(m % 10)>>

\* every hour of the day at its first and last minute, the minutes around the
\* window's edges, a one-digit hour, and strings time.Parse rejects
OtherTimes ==
    {Clock(h, m) : h \in 0..23, m \in {0, 59}}
      \cup {Clock(14, 1), Clock(14, 30), Clock(15, 30), s9_05, s24_00, s14_60, s2pm}

ScoreInputs ==
    {Receipt(r, d, t, tot, its) : r \in Retailers, d \in Dates, t \in Times,
                                  tot \in Totals, its \in ItemLists}

NoParts == [retailer |-> 0, round |-> 0, quarter |-> 0, itemCount |-> 0,
            description |-> 0, date |-> 0, time |-> 0]

\* what each rule added to points before receiptPoints returned
Contributions(receipt) ==
    LET dateErr == ParseDate(receipt.purchaseDate).err
        timeErr == ParseTime(receipt.purchaseTime).err
    IN  [retailer    |-> RetailerPoints(receipt),
         round       |-> RoundDollarPoints(receipt),
         quarter     |-> QuarterPoints(receipt),
         itemCount   |-> ItemCountPoints(receipt),
         description |-> DescriptionPoints(receipt),
         date        |-> IF dateErr THEN 0 ELSE DatePoints(receipt),
         time        |-> IF dateErr \/ timeErr THEN 0 ELSE TimePoints(receipt)]

-----------------------------------------------------------------------------
(* The server *)

\* goroutines serving requests at the same time
NumHandlers == 2
\* distinct values uuid.New() can return
NumIds == 2
\* requests accepted in one run with concurrent handlers
MaxRequests == 3
\* requests accepted in one run with one handler at a time
MaxSeqRequests == 4

Handlers == 1..NumHandlers
Ids      == 1..NumIds

BadDateReceipt == [ClassicReceipt EXCEPT !.purchaseDate = s2022_02_30]
BadTimeReceipt == [ClassicReceipt EXCEPT !.purchaseTime = s2pm]

\* request bodies that bind to a Receipt
Payloads    == {ClassicReceipt, BadDateReceipt}
SeqPayloads == {ClassicReceipt, BadDateReceipt, BadTimeReceipt}

NoReq  == [kind |-> "none", body |-> ZeroReceipt, id |-> 0]
NoLast == [kind |-> "none", status |-> 0, id |-> 0, points |-> 0, body |-> ZeroReceipt,
           exists |-> FALSE, scoring |-> FALSE, wasKey |-> FALSE, known |-> FALSE,
           dup |-> FALSE, clobber |-> FALSE]

Idle(h) == pc[h] = "idle"

\* a goroutine inside a map read of receipts
Reading(h) == pc[h] \in {"checking", "looking"}
\* a goroutine inside a map write of receipts
Writing(h) == pc[h] = "inserting"

\* the existence check left out
CollidesNever(store, g) == FALSE

\* _, exists := receipts[receiptGuid.String()]
Collides(store, g) == g \in DOMAIN store

\* receipts[receiptGuid.String()] = newReceipt
Store(store, g, newReceipt) ==
    [k \in DOMAIN store \cup {g} |-> IF k = g THEN newReceipt ELSE store[k]]

\* currReceipt, exists := receipts[receiptId]
Found(store, receiptId) == receiptId \in DOMAIN store

\* what a read can see of a Receipt that a concurrent write is storing: each
\* field either still as it was (old) or already written (new)
TornValues(old, new) ==
    {Receipt(a.retailer, b.purchaseDate, c.purchaseTime, d.total, e.items) :
        a \in {old, new}, b \in {old, new}, c \in {old, new}, d \in {old, new},
        e \in {old, new}}

\* what a map read of key k returns, present telling whether the map holds the
\* key.  Alone the read returns the map's content.  Overlapping a map write it
\* is a data race: the runtime may throw "concurrent map read and map write",
\* the read may return the content, or it may miss the key; and while a write
\* of the same key is under way the read may find the key with a Receipt that
\* is still zero, partly written or already written (the key is published
\* before the value is copied).
ReadOutcomes(h, store, k, present) ==
    LET old     == IF k \in DOMAIN store THEN store[k] ELSE ZeroReceipt
        alone   == IF present THEN [res |-> "hit", value |-> old]
                   ELSE [res |-> "miss", value |-> ZeroReceipt]
        writers == {o \in Handlers \ {h} : Writing(o) /\ guid[o] = k}
        torn    == UNION {TornValues(old, req[o].body) : o \in writers}
    IN  IF raced[h]
          THEN {alone, [res |-> "crash", value |-> ZeroReceipt],
                       [res |-> "miss", value |-> ZeroReceipt]}
                 \cup {[res |-> "hit", value |-> v] : v \in torn}
          ELSE {alone}

\* what a map write does.  Alone, or overlapping reads only, it stores.
\* Overlapping another write it is a data race: the runtime may throw
\* "concurrent map writes", the write may take effect, or it may be lost.
WriteOutcomes(h) == IF raced[h] THEN {"crash", "stored", "lost"} ELSE {"stored"}

\* the lookup's exists flag ignored: the zero Receipt is scored
LookupResponseUnchecked(exists, currReceipt) ==
    [status |-> 200, points |-> receiptPoints(currReceipt), scoring |-> TRUE]

\* the response of getReceiptPoints, from what the lookup returned
LookupResponse(exists, currReceipt) ==
    IF exists THEN [status |-> 200, points |-> receiptPoints(currReceipt), scoring |-> TRUE]
    ELSE [status |-> 404, points |-> 0, scoring |-> FALSE]

Init ==
    /\ receipts = [k \in {} |-> ZeroReceipt]
    /\ pc = [h \in Handlers |-> "idle"]
    /\ req = [h \in Handlers |-> NoReq]
    /\ guid = [h \in Handlers |-> 0]
    /\ raced = [h \in Handlers |-> FALSE]
    /\ known = [h \in Handlers |-> FALSE]
    /\ crashed = FALSE
    /\ nreq = 0
    /\ last = NoLast
    /\ acked = {}
    /\ ackedBody = [i \in Ids |-> ZeroReceipt]
    /\ lastPoints = [i \in Ids |-> -1]
    /\ input = ZeroReceipt
    /\ prevInput = ZeroReceipt
    /\ points = 0
    /\ prevPoints = 0
    /\ parts = NoParts
    /\ scored = FALSE

\* the router hands a request to a free goroutine (the first free one)
Accept(h, limit) ==
    /\ ~crashed
    /\ Idle(h)
    /\ \A o \in Handlers : o < h => ~Idle(o)
    /\ nreq < limit
    /\ nreq' = nreq + 1

\* the handler returns: its goroutine is free again
Return(h) ==
    /\ pc' = [pc EXCEPT ![h] = "idle"]
    /\ req' = [req EXCEPT ![h] = NoReq]
    /\ guid' = [guid EXCEPT ![h] = 0]
    /\ raced' = [raced EXCEPT ![h] = FALSE]
    /\ known' = [known EXCEPT ![h] = FALSE]

\* a map read starts: it races if a map write is under way
ReadRaces(h) == \E o \in Handlers \ {h} : Writing(o)

\* postReceipt: BindJSON fails, 400
PostMalformed(h, limit) ==
    /\ Accept(h, limit)
    /\ last' = [NoLast EXCEPT !.kind = "POST", !.status = 400]
    /\ UNCHANGED <<receipts, pc, req, guid, raced, known, crashed, acked, ackedBody, lastPoints>>
    /\ UNCHANGED scoreVars

\* postReceipt: BindJSON succeeds, receiptGuid := uuid.New(), and the loop's
\* existence check enters the map
PostStart(h, newReceipt, g, limit) ==
    /\ Accept(h, limit)
    /\ req' = [req EXCEPT ![h] = [kind |-> "POST", body |-> newReceipt, id |-> 0]]
    /\ guid' = [guid EXCEPT ![h] = g]
    /\ pc' = [pc EXCEPT ![h] = "checking"]
    /\ raced' = [raced EXCEPT ![h] = ReadRaces(h)]
    /\ UNCHANGED <<receipts, known, crashed, last, acked, ackedBody, lastPoints>>
    /\ UNCHANGED scoreVars

\* postReceipt: the existence check returns.  On a collision a new uuid is
\* drawn and checked in turn, otherwise the loop is left.
CheckEnd(h) ==
    /\ ~crashed
    /\ pc[h] = "checking"
    /\ \E out \in {o.res : o \in ReadOutcomes(h, receipts, guid[h], Collides(receipts, guid[h]))} :
       \E g \in IF out = "hit" THEN Ids ELSE {guid[h]} :
         /\ crashed' = (out = "crash")
         /\ pc' = [pc EXCEPT ![h] = IF out = "miss" THEN "insert" ELSE "checking"]
         /\ guid' = [guid EXCEPT ![h] = g]
         /\ raced' = [raced EXCEPT ![h] = IF out = "hit" THEN ReadRaces(h)
                                          ELSE IF out = "miss" THEN FALSE ELSE raced[h]]
    /\ UNCHANGED <<receipts, req, known, nreq, last, acked, ackedBody, lastPoints>>
    /\ UNCHANGED scoreVars

\* postReceipt: the insert enters the map; it races with every write under
\* way, and every access under way races with it
InsertBegin(h) ==
    /\ ~crashed
    /\ pc[h] = "insert"
    /\ pc' = [pc EXCEPT ![h] = "inserting"]
    /\ raced' = [o \in Handlers |->
                   IF o = h THEN \E x \in Handlers \ {h} : Writing(x)
                   ELSE raced[o] \/ Reading(o) \/ Writing(o)]
    /\ UNCHANGED <<receipts, req, guid, known, crashed, nreq, last, acked, ackedBody, lastPoints>>
    /\ UNCHANGED scoreVars

\* postReceipt: the insert returns and the handler answers 201 with the id
InsertEnd(h) ==
    /\ ~crashed
    /\ pc[h] = "inserting"
    /\ \E out \in WriteOutcomes(h) :
         IF out = "crash"
           THEN /\ crashed' = TRUE
                /\ UNCHANGED <<receipts, pc, req, guid, raced, known, last, acked, ackedBody>>
           ELSE /\ crashed' = FALSE
                /\ receipts' = IF out = "stored" THEN Store(receipts, guid[h], req[h].body)
                               ELSE receipts
                /\ last' = [NoLast EXCEPT !.kind = "POST", !.status = 201, !.id = guid[h],
                                          !.body = req[h].body,
                                          !.dup = guid[h] \in acked,
                                          !.clobber = out = "stored" /\ guid[h] \in DOMAIN receipts]
                /\ acked' = acked \cup {guid[h]}
                /\ ackedBody' = [ackedBody EXCEPT ![guid[h]] = req[h].body]
                /\ Return(h)
    /\ UNCHANGED <<nreq, lastPoints>>
    /\ UNCHANGED scoreVars

\* getReceiptPoints: receiptId := c.Param("id"), and the lookup enters the map
GetStart(h, receiptId, limit) ==
    /\ Accept(h, limit)
    /\ req' = [req EXCEPT ![h] = [kind |-> "GET", body |-> ZeroReceipt, id |-> receiptId]]
    /\ pc' = [pc EXCEPT ![h] = "looking"]
    /\ raced' = [raced EXCEPT ![h] = ReadRaces(h)]
    /\ known' = [known EXCEPT ![h] = receiptId \in acked]
    /\ UNCHANGED <<receipts, guid, crashed, last, acked, ackedBody, lastPoints>>
    /\ UNCHANGED scoreVars

\* getReceiptPoints: the lookup returns and the handler answers
LookupEnd(h) ==
    /\ ~crashed
    /\ pc[h] = "looking"
    /\ \E out \in ReadOutcomes(h, receipts, req[h].id, Found(receipts, req[h].id)) :
         IF out.res = "crash"
           THEN /\ crashed' = TRUE
                /\ UNCHANGED <<pc, req, guid, raced, known, last, lastPoints>>
           ELSE LET exists      == out.res = "hit"
                    currReceipt == out.value
                    answer      == LookupResponse(exists, currReceipt)
                IN  /\ crashed' = FALSE
                    /\ last' = [NoLast EXCEPT !.kind = "GET", !.status = answer.status,
                                              !.id = req[h].id, !.points = answer.points,
                                              !.body = currReceipt, !.exists = exists,
                                              !.scoring = answer.scoring,
                                              !.wasKey = Found(receipts, req[h].id),
                                              !.known = known[h]]
                    /\ lastPoints' = IF answer.status = 200
                                       THEN [lastPoints EXCEPT ![req[h].id] = answer.points]
                                       ELSE lastPoints
                    /\ Return(h)
    /\ UNCHANGED <<receipts, nreq, acked, ackedBody>>
    /\ UNCHANGED scoreVars

Next ==
    \E h \in Handlers :
        \/ PostMalformed(h, MaxRequests)
        \/ \E newReceipt \in Payloads, g \in Ids : PostStart(h, newReceipt, g, MaxRequests)
        \/ CheckEnd(h)
        \/ InsertBegin(h)
        \/ InsertEnd(h)
        \/ \E receiptId \in Ids : GetStart(h, receiptId, MaxRequests)
        \/ LookupEnd(h)

Spec == Init /\ [][Next]_vars

\* one request at a time: a request is accepted only when no handler is running
Quiet == \A h \in Handlers : Idle(h)

NextSeq ==
    \E h \in Handlers :
        \/ Quiet /\ PostMalformed(h, MaxSeqRequests)
        \/ Quiet /\ \E newReceipt \in SeqPayloads, g \in Ids :
                       PostStart(h, newReceipt, g, MaxSeqRequests)
        \/ CheckEnd(h)
        \/ InsertBegin(h)
        \/ InsertEnd(h)
        \/ Quiet /\ \E receiptId \in Ids : GetStart(h, receiptId, MaxSeqRequests)
        \/ LookupEnd(h)

SpecSeq == Init /\ [][NextSeq]_vars

-----------------------------------------------------------------------------
(* The scoring harness: receiptPoints applied to a receipt, then applied    *)
(* again to the same receipt with another purchase time.                    *)

InitScore ==
    /\ receipts = [k \in {} |-> ZeroReceipt]
    /\ pc = [h \in Handlers |-> "idle"]
    /\ req = [h \in Handlers |-> NoReq]
    /\ guid = [h \in Handlers |-> 0]
    /\ raced = [h \in Handlers |-> FALSE]
    /\ known = [h \in Handlers |-> FALSE]
    /\ crashed = FALSE
    /\ nreq = 0
    /\ last = NoLast
    /\ acked = {}
    /\ ackedBody = [i \in Ids |-> ZeroReceipt]
    /\ lastPoints = [i \in Ids |-> -1]
    /\ input \in ScoreInputs
    /\ prevInput = ZeroReceipt
    /\ points = 0
    /\ prevPoints = 0
    /\ parts = NoParts
    /\ scored = FALSE

Score ==
    /\ ~scored
    /\ scored' = TRUE
    /\ points' = receiptPoints(input)
    /\ parts' = Contributions(input)
    /\ UNCHANGED <<input, prevInput, prevPoints>>
    /\ UNCHANGED serverVars

Rescore(t) ==
    /\ scored
    /\ prevInput = ZeroReceipt
    /\ t # input.purchaseTime
    /\ prevInput' = input
    /\ prevPoints' = points
    /\ input' = [input EXCEPT !.purchaseTime = t]
    /\ points' = receiptPoints(input')
    /\ parts' = Contributions(input')
    /\ UNCHANGED scored
    /\ UNCHANGED serverVars

NextScore == Score \/ \E t \in OtherTimes : Rescore(t)

SpecScore == InitScore /\ [][NextScore]_vars

-----------------------------------------------------------------------------
(* Properties *)

DateParses(receipt) == ~ParseDate(receipt.purchaseDate).err
TimeParses(receipt) == ~ParseTime(receipt.purchaseTime).err

\* C1: check-then-insert is one atomic step: no 201 response carries an
\* identifier an earlier 201 response carried, and no insert overwrites a
\* record already stored.
C1_CheckThenInsertAtomic == ~last.dup /\ ~last.clobber

\* C2: a query that started after the 201 response carrying its identifier
\* answers 200, never 404.
C2_AckedRecordVisible == (last.kind = "GET" /\ last.known) => last.status = 200

\* C3: in every store state, a query whose identifier is not a key of the map
\* answers 404 with no points, and receiptPoints is not invoked for it.
C3_UnknownIdNotFound ==
    (last.kind = "GET" /\ ~last.wasKey)
      => (last.status = 404 /\ last.points = 0 /\ ~last.exists /\ ~last.scoring)

C3_Witness == last.kind = "GET" /\ ~last.wasKey /\ last.status = 404 /\ receipts # <<>>

\* C4: with requests handled one after another, every 201 response carries a
\* fresh identifier, every identifier returned is stored with the receipt that
\* was submitted under it, and two identifiers returned for the same payload
\* query back to the same points.
C4_SamePayloadTwice ==
    /\ ~last.dup
    /\ \A i \in acked : Found(receipts, i) /\ receipts[i] = ackedBody[i]
    /\ \A i, j \in acked :
         (ackedBody[i] = ackedBody[j] /\ lastPoints[i] # -1 /\ lastPoints[j] # -1)
           => lastPoints[i] = lastPoints[j]

C4_Witness ==
    \E i, j \in acked :
        /\ i # j
        /\ ackedBody[i] = ClassicReceipt /\ ackedBody[j] = ClassicReceipt
        /\ lastPoints[i] # -1 /\ lastPoints[j] # -1

\* C5: for a receipt whose purchase date and time parse, receiptPoints
\* returns a number >= 0.
C5_PointsNonNegative == (scored /\ DateParses(input) /\ TimeParses(input)) => points >= 0

\* C6: the 50-point round-dollar bonus is added if and only if the total
\* parses as a decimal number and its value modulo 1.00 is 0.
C6_RoundDollarIffParsedRound ==
    scored => (parts.round = 50 <=>
                 (~ParseFloat(input.total).err /\ ModOneIsZero(ParseFloat(input.total))))

\* C7 as stated: the classic receipt scores 31.
C7_ClassicScores31 == (scored /\ input = ClassicReceipt) => points = 31

\* C7 amended: the classic receipt scores 43: retailer 6, quarter total 25,
\* one pair of items 5, the six-letter description 1, odd day 6, and nothing
\* for the round-dollar and time-window rules.
C7_ClassicScores43 ==
    (scored /\ input = ClassicReceipt)
      => /\ points = 43
         /\ parts = [retailer |-> 6, round |-> 0, quarter |-> 25, itemCount |-> 5,
                     description |-> 1, date |-> 6, time |-> 0]

C7_Witness == scored /\ input = ClassicReceipt /\ points > 0

\* the time-window rule as the claim states it, from the hour of HH:MM
Window(t) == IF ParseTime(t).hour >= 14 /\ ParseTime(t).hour < 16 THEN 10 ELSE 0

\* C8 as stated: for a parseable purchase time the time-window rule adds 10
\* when the hour is 14 or 15, whatever the minute, and 0 otherwise; two
\* receipts that differ only in their purchase time differ in score by exactly
\* that.
C8_TimeWindowAnyDate ==
    (scored /\ TimeParses(input))
      => /\ parts.time = Window(input.purchaseTime)
         /\ (prevInput # ZeroReceipt /\ TimeParses(prevInput))
              => points - prevPoints = Window(input.purchaseTime) - Window(prevInput.purchaseTime)

\* C8 amended: the same for receipts whose purchase date parses; when the
\* purchase date does not parse the rule adds nothing and both receipts
\* score 0.
C8_TimeWindow ==
    (scored /\ TimeParses(input))
      => IF DateParses(input)
           THEN /\ parts.time = Window(input.purchaseTime)
                /\ (prevInput # ZeroReceipt /\ TimeParses(prevInput))
                     => points - prevPoints
                          = Window(input.purchaseTime) - Window(prevInput.purchaseTime)
           ELSE /\ parts.time = 0 /\ points = 0
                /\ prevInput # ZeroReceipt => prevPoints = 0

C8_Witness ==
    /\ scored /\ DateParses(input)
    /\ prevInput # ZeroReceipt /\ prevInput.purchaseTime = s13_01
    /\ input.purchaseTime = Clock(14, 0)
    /\ points = prevPoints + 10

\* C9: when the stored receipt's purchase date or purchase time does not
\* parse, the query answers 200 with points 0, whatever the other rules had
\* accumulated, and the process has not crashed.
C9_ParseFailureScoresZero ==
    (last.kind = "GET" /\ last.exists /\ (~DateParses(last.body) \/ ~TimeParses(last.body)))
      => (last.status = 200 /\ last.points = 0 /\ ~crashed)

C9_Witness ==
    /\ last.kind = "GET" /\ last.exists /\ last.status = 200
    /\ DateParses(last.body) /\ ~TimeParses(last.body)
    /\ Accumulated(last.body) > 0

\* C10: once a receipt is stored under an identifier, every later state maps
\* that identifier to the same receipt.
C10_StoredRecordFrozen ==
    [][\A i \in DOMAIN receipts : i \in DOMAIN receipts' /\ receipts'[i] = receipts[i]]_vars

=============================================================================
